---- MODULE Spec2Model ----
(***************************************************************************)
(* Model of src/app.py, the project-management-plan generator: the label   *)
(* scoring utilities, the rule-based suggestion engine and the two plan    *)
(* renderers (Markdown and DOCX).                                          *)
(*                                                                         *)
(* Representation of Python values:                                        *)
(*   - a string on which the code works character by character (strip,    *)
(*     lower, join, substring test) is a sequence of one-character         *)
(*     strings;                                                            *)
(*   - a string the code only compares for equality or copies (catalog     *)
(*     statements, enum labels, table cells, template literals) is a       *)
(*     TLA+ string;                                                        *)
(*   - an f-string "literal{value}" is the record                          *)
(*     [lit |-> literal, arg |-> value].                                   *)
(***************************************************************************)
EXTENDS Naturals, Sequences, FiniteSets, TLC

VARIABLES
    fn,           \* which functions' arguments were drawn
    label,        \* argument of p_label_to_score / i_label_to_score
    outcome,      \* argument of suggest_objectives
    methodology,  \* argument of suggest_objectives / suggest_risks
    industry,     \* argument of suggest_risks
    drivers,      \* argument of suggest_objectives
    returned,     \* names of the functions that have returned
    pScore,       \* value returned by p_label_to_score
    iScore,       \* value returned by i_label_to_score
    objOut,       \* value returned by suggest_objectives
    riskOut,      \* value returned by suggest_risks
    model,        \* argument of plan_markdown / plan_docx (the plan model)
    argsort,      \* row order sort_values yields for model["risks"] on this build
    md,           \* value returned by plan_markdown
    docx,         \* document built by plan_docx
    raised,       \* names of the functions that have raised
    session,      \* st.session_state: the keys present and their values
    pc,           \* where the script run is: before init_state() or after it
    reached,      \* how far the previous script run got
    event,        \* the widget interaction that triggered the current run
    custom        \* text held by the "additional drivers" input

callVars == <<fn, label, outcome, methodology, industry, drivers>>

renderVars == <<model, argsort, md, docx>>

sessionVars == <<session, pc, reached, event, custom>>

vars == <<fn, label, outcome, methodology, industry, drivers,
          returned, pScore, iScore, objOut, riskOut,
          model, argsort, md, docx, raised,
          session, pc, reached, event, custom>>

\* ------------------------------------------------------------------ bounds

MaxDrivers == 2

MaxRisks == 3

\* Widget interactions in one browser session after the page was loaded.
MaxReruns == 2

\* ------------------------------------------------------- character strings

Whitespace == {" ", "\t", "\n", "\r"}

\* str.lower() on one character (ASCII letters).
LowerChar(c) ==
    CASE c = "A" -> "a" [] c = "B" -> "b" [] c = "C" -> "c" [] c = "D" -> "d"
      [] c = "E" -> "e" [] c = "F" -> "f" [] c = "G" -> "g" [] c = "H" -> "h"
      [] c = "I" -> "i" [] c = "J" -> "j" [] c = "K" -> "k" [] c = "L" -> "l"
      [] c = "M" -> "m" [] c = "N" -> "n" [] c = "O" -> "o" [] c = "P" -> "p"
      [] c = "Q" -> "q" [] c = "R" -> "r" [] c = "S" -> "s" [] c = "T" -> "t"
      [] c = "U" -> "u" [] c = "V" -> "v" [] c = "W" -> "w" [] c = "X" -> "x"
      [] c = "Y" -> "y" [] c = "Z" -> "z" [] OTHER -> c

\* str.lower()
Lower(s) == [i \in 1..Len(s) |-> LowerChar(s[i])]

\* str.strip(): drops leading and trailing whitespace, keeps inner whitespace.
Strip(s) ==
    LET keep == {i \in 1..Len(s) : s[i] \notin Whitespace}
        first == CHOOSE i \in keep : \A j \in keep : i <= j
        last == CHOOSE i \in keep : \A j \in keep : j <= i
    IN IF keep = {} THEN <<>> ELSE SubSeq(s, first, last)

\* Mutant: "".join(parts), the parts run together without the separator.
RECURSIVE JoinNoSeparator(_)
JoinNoSeparator(parts) ==
    IF parts = <<>> THEN <<>> ELSE parts[1] \o JoinNoSeparator(Tail(parts))

\* " ".join(parts)
RECURSIVE Join(_)
Join(parts) ==
    IF parts = <<>> THEN <<>>
    ELSE IF Len(parts) = 1 THEN parts[1]
    ELSE parts[1] \o <<" ">> \o Join(Tail(parts))

\* kw in s  (substring test)
Contains(s, kw) ==
    \E i \in 1..(Len(s) + 1) :
        /\ i + Len(kw) - 1 <= Len(s)
        /\ SubSeq(s, i, i + Len(kw) - 1) = kw

\* ------------------------------------------------------- scoring utilities

\* mapping.get(label, 2) over {"Low": 1, "Medium": 2, "High": 3}
MappingGet(lbl, default) ==
    CASE lbl = "Low" -> 1
      [] lbl = "Medium" -> 2
      [] lbl = "High" -> 3
      [] OTHER -> default

\* Mutant: an unrecognized label scores 0 instead of the neutral 2.
p_label_to_score_default0(lbl) == MappingGet(lbl, 0)

p_label_to_score(lbl) == MappingGet(lbl, 2)

i_label_to_score(lbl) == MappingGet(lbl, 2)

\* ------------------------------------------------------- suggestion engine

METHODOLOGIES == <<"Agile", "Waterfall", "Hybrid">>

INDUSTRIES ==
    << "Information Technology / Software",
       "Infrastructure / Construction",
       "Healthcare",
       "Financial Services",
       "Government / Public Sector",
       "Education",
       "Other" >>

BASE_RISKS ==
    ("Common" :>
        << "Scope creep due to unclear requirements or stakeholder changes",
           "Resource constraints or key person dependency",
           "Vendor or third-party delays impacting critical path",
           "Integration complexity leads to unexpected defects",
           "Data privacy/security and compliance gaps",
           "Stakeholder misalignment on priorities and success criteria",
           "Underestimated effort causing schedule slippage",
           "Budget overrun due to change or market costs",
           "Insufficient change management causes poor adoption",
           "Environment or infrastructure readiness delays" >>)
    @@ ("Information Technology / Software" :>
        << "Requirements churn due to evolving business needs",
           "Technical debt or legacy constraints impacting velocity",
           "Performance/scalability issues discovered late",
           "Environment instability or CI/CD pipeline failures" >>)
    @@ ("Infrastructure / Construction" :>
        << "Permitting/approvals delays impact start dates",
           "Site conditions differ from surveys impacting design/cost",
           "Weather events disrupt critical path activities",
           "Safety incidents cause stoppages" >>)
    @@ ("Healthcare" :>
        << "Privacy and clinical safety requirements cause rework",
           "Clinical workflow change resistance limits adoption",
           "Interoperability challenges with EMR/EHR systems" >>)
    @@ ("Financial Services" :>
        << "Regulatory change introduces additional controls",
           "Audit findings drive unplanned remediation",
           "Compliance approval cycle extends timelines" >>)
    @@ ("Government / Public Sector" :>
        << "Procurement timelines extend beyond forecast",
           "Policy changes alter project objectives",
           "Public scrutiny/media require additional assurance" >>)
    @@ ("Education" :>
        << "Academic calendar constraints limit deployment windows",
           "Stakeholder availability limited outside terms",
           "Digital accessibility requirements add scope" >>)

\* A string built by an f-string: the literal part and the interpolated value.
Fmt(lit, arg) == [lit |-> lit, arg |-> arg]

\* A string literal.
Lit(lit) == [lit |-> lit, arg |-> <<>>]

KwRisk == <<"r", "i", "s", "k">>
KwCost == <<"c", "o", "s", "t">>
KwBudget == <<"b", "u", "d", "g", "e", "t">>
KwSpeed == <<"s", "p", "e", "e", "d">>
KwTime == <<"t", "i", "m", "e">>
KwQuality == <<"q", "u", "a", "l", "i", "t", "y">>
KwCompliance == <<"c", "o", "m", "p", "l", "i", "a", "n", "c", "e">>

ObjKpi == "Define measurable KPIs and acceptance criteria aligned to business value"
ObjAgile == "Deliver scope in agreed increments with clear Definition of Done"
ObjPhase == "Deliver scope by phase with approved entry/exit criteria"
ObjRisk == "Reduce high-priority delivery risks with proactive mitigations and fast feedback"
ObjCost == "Control total cost within the approved budget envelope"
ObjTime == "Meet or accelerate the target timeline through critical path focus"
ObjQuality == "Achieve quality targets measured by defect rates and user satisfaction"
ObjCompliance == "Comply with applicable regulatory and policy requirements with evidence"

\* " ".join(drivers).lower()
JoinedLower(drvs) == Lower(Join(drvs))

\* out.append(x) if cond
AppendIf(out, cond, x) == IF cond THEN Append(out, x) ELSE out

\* Mutant: "if not outcome", the blank test without strip().
IsBlankNoStrip(outc) == outc = <<>>

\* not outcome.strip()
IsBlank(outc) == Strip(outc) = <<>>

\* Mutant: the restatement keeps the outcome's surrounding whitespace.
RestatementRaw(outc) == Fmt("Deliver the defined outcome: ", outc)

\* f"Deliver the defined outcome: {outcome.strip()}"
Restatement(outc) == Fmt("Deliver the defined outcome: ", Strip(outc))

\* The delivery statement: Agile wording, or the phase wording otherwise.
DeliveryStatement(meth) == IF meth = "Agile" THEN Lit(ObjAgile) ELSE Lit(ObjPhase)

suggest_objectives(outc, meth, drvs) ==
    LET text == JoinedLower(drvs)
        o1 == <<Restatement(outc)>>
        o2 == Append(o1, Lit(ObjKpi))
        o3 == Append(o2, DeliveryStatement(meth))
        o4 == AppendIf(o3, Contains(text, KwRisk), Lit(ObjRisk))
        o5 == AppendIf(o4, Contains(text, KwCost) \/ Contains(text, KwBudget),
                       Lit(ObjCost))
        o6 == AppendIf(o5, Contains(text, KwSpeed) \/ Contains(text, KwTime),
                       Lit(ObjTime))
        o7 == AppendIf(o6, Contains(text, KwQuality), Lit(ObjQuality))
        o8 == AppendIf(o7, Contains(text, KwCompliance), Lit(ObjCompliance))
    IN IF IsBlank(outc) THEN <<>> ELSE o8

AgileRisks ==
    << "Backlog not sufficiently refined causing sprint spillover",
       "Team velocity variability reduces predictability" >>

WaterfallRisks ==
    << "Late-stage integration exposes significant defects",
       "Change control process causes delays on critical path" >>

HybridRisks ==
    << "Hybrid governance causes ambiguity in decision rights",
       "Phase gates misaligned with agile increments" >>

\* The two statements appended by the three-way methodology switch.
MethodologyRisks(meth) ==
    IF meth = "Agile" THEN AgileRisks
    ELSE IF meth = "Waterfall" THEN WaterfallRisks
    ELSE HybridRisks

\* The dedup loop: keeps the first occurrence of every statement, in order.
RECURSIVE DedupFrom(_, _, _)
DedupFrom(risks, seen, deduped) ==
    IF risks = <<>> THEN deduped
    ELSE IF Head(risks) \in seen
    THEN DedupFrom(Tail(risks), seen, deduped)
    ELSE DedupFrom(Tail(risks), seen \cup {Head(risks)}, Append(deduped, Head(risks)))

\* Mutant: the list is returned without the dedup loop.
DeduplicateNothing(risks) == risks

Deduplicate(risks) == DedupFrom(risks, {}, <<>>)

\* Mutant: the industry catalog is never appended.
suggest_risks_no_industry(ind, meth) ==
    Deduplicate(BASE_RISKS["Common"] \o MethodologyRisks(meth))

suggest_risks(ind, meth) ==
    LET common == BASE_RISKS["Common"]
        extra == IF ind \in DOMAIN BASE_RISKS THEN BASE_RISKS[ind] ELSE <<>>
    IN Deduplicate(common \o extra \o MethodologyRisks(meth))

\* ------------------------------------------------------------ plan renderers
\*
\* A rendered plan is a sequence of entries (Markdown lines, DOCX paragraphs
\* and table rows).  An entry records the construct (tag), its literal text
\* with the markup characters removed (lit) and the interpolated values: a
\* character string (arg), an opaque string (val), a list position (n), a list
\* item (item) or table cells (cells).

Entry(tag, lit) ==
    [tag |-> tag, lit |-> lit, arg |-> <<>>, val |-> "", n |-> 0,
     item |-> Lit(""), cells |-> <<>>]

EntryArg(tag, lit, arg) == [Entry(tag, lit) EXCEPT !.arg = arg]

EntryVal(tag, lit, val) == [Entry(tag, lit) EXCEPT !.val = val]

EntryItem(tag, n, item) == [Entry(tag, "") EXCEPT !.n = n, !.item = item]

EntryCells(tag, cells) == [Entry(tag, "") EXCEPT !.cells = cells]

\* dict.get(key, default)
Get(d, key, default) == IF key \in DOMAIN d THEN d[key] ELSE default

\* x or 'TBD' for a character string x
OrTBD(x) == IF x = <<>> THEN <<"T", "B", "D">> ELSE x

\* Keys of the row dictionaries, in the order the application writes them.
GovColumns == <<"Role", "Name", "Decision Rights">>
RaciColumns == <<"Item", "R", "A", "C", "I">>
RiskColumns == <<"Risk", "Probability", "Impact", "Mitigation", "Owner">>
MilestoneColumns == <<"Milestone", "Date", "Acceptance Criteria">>
CommsColumns == <<"Stakeholder", "Information Needs", "Channel", "Frequency", "Owner">>

\* pd.DataFrame(rows).columns: the keys that occur in some row.
DataFrameColumns(rows, keyOrder) ==
    LET occurs(c) == \E i \in 1..Len(rows) : c \in DOMAIN rows[i]
    IN SelectSeq(keyOrder, occurs)

\* A DataFrame cell: the row's value, NaN where the row lacks the key.
DataFrameCell(row, c) == IF c \in DOMAIN row THEN row[c] ELSE "nan"

\* The cells of one DataFrame row over the given columns.
DataFrameRow(row, columns) == [k \in 1..Len(columns) |-> DataFrameCell(row, columns[k])]

\* df.to_markdown(index=False): header, separator, one row per record.
to_markdown(rows, columns) ==
    <<EntryCells("th", columns), Entry("tsep", "")>>
    \o [i \in 1..Len(rows) |-> EntryCells("tr", DataFrameRow(rows[i], columns))]

\* RiskScore column: ProbabilityScore * ImpactScore of every row.
RiskScore(risks) ==
    [i \in 1..Len(risks) |->
        p_label_to_score(DataFrameCell(risks[i], "Probability"))
        * i_label_to_score(DataFrameCell(risks[i], "Impact"))]

\* The permutations of 1..n.
IndexPermutations(n) ==
    {f \in [1..n -> 1..n] : \A a, b \in 1..n : f[a] = f[b] => a = b}

\* sort_values("RiskScore", ascending=False) with the default kind="quicksort":
\* the row order is descending by score; the order of rows with equal scores
\* is whatever the installed numpy quicksort produces (it is not a stable
\* sort), so every descending order is a possible result.
sort_values(risks) ==
    LET score == RiskScore(risks)
    IN {f \in IndexPermutations(Len(risks)) :
          \A a, b \in 1..Len(risks) : a < b => score[f[a]] >= score[f[b]]}

\* An enumerated list: one "i. text" line per item.
NumberedList(items) == [i \in 1..Len(items) |-> EntryItem("ol", i, items[i])]

MdHeader(m) ==
    << Entry("h1", "Project Management Plan"),
       Entry("blank", ""),
       EntryArg("labelled", "Project/Outcome:", OrTBD(m.outcome)),
       EntryVal("labelled", "Methodology:", m.methodology),
       EntryVal("labelled", "Industry:", m.industry),
       EntryVal("labelled", "Risk Appetite:", m.risk_appetite),
       Entry("blank", ""),
       Entry("hr", "") >>

MdObjectives(m) ==
    <<Entry("h2", "1. Objectives")>>
    \o (IF m.objectives # <<>>
        THEN NumberedList(m.objectives)
        ELSE <<Entry("em", "No objectives captured yet")>>)
    \o <<Entry("blank", "")>>

\* Mutant: the scope summary is tested without strip().
MdScopeNoStrip(m) ==
    <<Entry("h2", "2. Scope Summary")>>
    \o (IF Get(m, "scope_summary", <<>>) # <<>>
        THEN <<EntryArg("text", "", Get(m, "scope_summary", <<>>))>>
        ELSE <<Entry("text",
                 "Summarize in-scope and out-of-scope items, key deliverables, and assumptions.")>>)
    \o <<Entry("blank", "")>>

MdScope(m) ==
    LET scope_summary == Strip(Get(m, "scope_summary", <<>>))
    IN <<Entry("h2", "2. Scope Summary")>>
       \o (IF scope_summary # <<>>
           THEN <<EntryArg("text", "", scope_summary)>>
           ELSE <<Entry("text",
                    "Summarize in-scope and out-of-scope items, key deliverables, and assumptions.")>>)
       \o <<Entry("blank", "")>>

MdRaci(m) ==
    IF Get(m, "include_raci", FALSE)
    THEN <<Entry("h3", "3.2 RACI (Indicative)"),
           EntryCells("th", <<"Deliverable/Activity", "R", "A", "C", "I">>),
           Entry("tsep", "")>>
         \o [i \in 1..Len(Get(m, "raci_rows", <<>>)) |->
               EntryCells("tr", [k \in 1..5 |-> m.raci_rows[i][RaciColumns[k]]])]
         \o (IF Get(m, "raci_rows", <<>>) = <<>>
             THEN <<Entry("em", "Add RACI entries in the app to include them here.")>>
             ELSE <<>>)
    ELSE <<>>

MdGovernance(m) ==
    << Entry("h2", "3. Governance"),
       EntryVal("labelled", "Governance cadence:", Get(m, "gov_cadence", "TBD")),
       EntryVal("labelled", "Escalation path:", Get(m, "gov_escalation", "TBD")),
       Entry("blank", ""),
       Entry("h3", "3.1 Roles & Decision Rights") >>
    \o (IF m.governance_roles # <<>>
        THEN to_markdown(m.governance_roles,
                         DataFrameColumns(m.governance_roles, GovColumns))
        ELSE <<Entry("em", "No governance roles captured yet")>>)
    \o <<Entry("blank", "")>>
    \o MdRaci(m)
    \o <<Entry("blank", "")>>

\* order: the row order sort_values produced.
MdRisks(m, order) ==
    <<Entry("h2", "4. Risks & Mitigations")>>
    \o (IF m.risks # <<>>
        THEN to_markdown([i \in 1..Len(m.risks) |-> m.risks[order[i]]], RiskColumns)
        ELSE <<Entry("em", "No risks captured yet")>>)
    \o <<Entry("blank", "")>>

MdMilestones(m) ==
    <<Entry("h2", "5. Milestones & Timeline")>>
    \o (IF m.milestones # <<>>
        THEN to_markdown(m.milestones, DataFrameColumns(m.milestones, MilestoneColumns))
        ELSE <<Entry("em", "Add key milestones, dates, and acceptance criteria.")>>)
    \o <<Entry("blank", "")>>

MdComms(m) ==
    <<Entry("h2", "6. Stakeholders & Communications")>>
    \o (IF m.comms # <<>>
        THEN to_markdown(m.comms, DataFrameColumns(m.comms, CommsColumns))
        ELSE <<Entry("em",
                 "Define stakeholders, information needs, channels, frequency, and owner.")>>)
    \o <<Entry("blank", "")>>

MdSuccess(m) ==
    <<Entry("h2", "7. Success Measures")>>
    \o (IF m.success_measures # <<>>
        THEN NumberedList(m.success_measures)
        ELSE <<Entry("em", "Define measurable KPIs and acceptance criteria.")>>)
    \o <<Entry("blank", "")>>

\* plan_markdown raises KeyError: a RACI row read by row['Item'] .. row['I']
\* lacks the key, or the risk DataFrame lacks a column the code selects.
plan_markdown_raises(m) ==
    \/ /\ Get(m, "include_raci", FALSE)
       /\ \E i \in 1..Len(Get(m, "raci_rows", <<>>)) :
             \E k \in 1..5 : RaciColumns[k] \notin DOMAIN m.raci_rows[i]
    \/ /\ m.risks # <<>>
       /\ \E k \in 1..5 :
             \A i \in 1..Len(m.risks) : RiskColumns[k] \notin DOMAIN m.risks[i]

plan_markdown(m, order) ==
    MdHeader(m) \o MdObjectives(m) \o MdScope(m) \o MdGovernance(m)
    \o MdRisks(m, order) \o MdMilestones(m) \o MdComms(m) \o MdSuccess(m)

\* A bulleted list: one "List Bullet" paragraph per item.
BulletList(items) == [i \in 1..Len(items) |-> EntryItem("bullet", 0, items[i])]

\* doc.add_table: the header cells, then one row of cells per record.
DocxTable(header, rowCells) ==
    <<EntryCells("th", header)>>
    \o [i \in 1..Len(rowCells) |-> EntryCells("tr", rowCells[i])]

DocxHeader(m) ==
    << Entry("title", "Project Management Plan"),
       Entry("blank", ""),
       EntryArg("labelled", "Project/Outcome: ", OrTBD(m.outcome)),
       EntryVal("labelled", "Methodology: ", m.methodology),
       EntryVal("labelled", "Industry: ", m.industry),
       EntryVal("labelled", "Risk Appetite: ", m.risk_appetite),
       Entry("blank", "") >>

DocxObjectives(m) ==
    <<Entry("h", "1. Objectives")>>
    \o (IF m.objectives # <<>>
        THEN BulletList(m.objectives)
        ELSE <<Entry("p", "Define objectives aligned to the outcome and KPIs.")>>)

DocxScope(m) ==
    LET scope_summary == Strip(Get(m, "scope_summary", <<>>))
    IN <<Entry("h", "2. Scope Summary")>>
       \o (IF scope_summary # <<>>
           THEN <<EntryArg("p", "", scope_summary)>>
           ELSE <<Entry("p",
                    "Summarize in-scope, out-of-scope, deliverables, and assumptions.")>>)

\* Mutant: the RACI subsection is also rendered whenever RACI rows exist.
DocxRaciWheneverRows(m) ==
    IF Get(m, "include_raci", FALSE) \/ Get(m, "raci_rows", <<>>) # <<>>
    THEN <<Entry("bold", "3.2 RACI (Indicative)")>>
         \o (IF Get(m, "raci_rows", <<>>) # <<>>
             THEN DocxTable(<<"Deliverable/Activity", "R", "A", "C", "I">>,
                            [i \in 1..Len(m.raci_rows) |->
                               [k \in 1..5 |-> Get(m.raci_rows[i], RaciColumns[k], "")]])
             ELSE <<Entry("p", "Add RACI entries in the app to include them here.")>>)
    ELSE <<>>

DocxRaci(m) ==
    IF Get(m, "include_raci", FALSE)
    THEN <<Entry("bold", "3.2 RACI (Indicative)")>>
         \o (IF Get(m, "raci_rows", <<>>) # <<>>
             THEN DocxTable(<<"Deliverable/Activity", "R", "A", "C", "I">>,
                            [i \in 1..Len(m.raci_rows) |->
                               [k \in 1..5 |-> Get(m.raci_rows[i], RaciColumns[k], "")]])
             ELSE <<Entry("p", "Add RACI entries in the app to include them here.")>>)
    ELSE <<>>

DocxGovernance(m) ==
    << Entry("h", "3. Governance"),
       EntryVal("labelled", "Governance cadence: ", Get(m, "gov_cadence", "TBD")),
       EntryVal("labelled", "Escalation path: ", Get(m, "gov_escalation", "TBD")),
       Entry("bold", "3.1 Roles & Decision Rights") >>
    \o (IF m.governance_roles # <<>>
        THEN DocxTable(<<"Role", "Name", "Decision Rights">>,
                       [i \in 1..Len(m.governance_roles) |->
                          [k \in 1..3 |-> Get(m.governance_roles[i], GovColumns[k], "")]])
        ELSE <<Entry("p", "No governance roles defined.")>>)
    \o DocxRaci(m)

\* One risk row read from the sorted DataFrame: r["Risk"], r["Probability"],
\* r["Impact"], r.get("Mitigation", ""), r.get("Owner", "").
DocxRiskCells(risks, row) ==
    LET columns == DataFrameColumns(risks, RiskColumns)
        has(c) == \E k \in 1..Len(columns) : columns[k] = c
    IN << DataFrameCell(row, "Risk"),
          DataFrameCell(row, "Probability"),
          DataFrameCell(row, "Impact"),
          IF has("Mitigation") THEN DataFrameCell(row, "Mitigation") ELSE "",
          IF has("Owner") THEN DataFrameCell(row, "Owner") ELSE "" >>

\* order: the row order sort_values produced.
DocxRisks(m, order) ==
    <<Entry("h", "4. Risks & Mitigations")>>
    \o (IF m.risks # <<>>
        THEN DocxTable(RiskColumns,
                       [i \in 1..Len(m.risks) |-> DocxRiskCells(m.risks, m.risks[order[i]])])
        ELSE <<Entry("p", "No risks captured yet.")>>)

DocxMilestones(m) ==
    <<Entry("h", "5. Milestones & Timeline")>>
    \o (IF m.milestones # <<>>
        THEN DocxTable(<<"Milestone", "Target Date", "Acceptance Criteria">>,
                       [i \in 1..Len(m.milestones) |->
                          [k \in 1..3 |-> Get(m.milestones[i], MilestoneColumns[k], "")]])
        ELSE <<Entry("p", "Add key milestones, dates, and acceptance criteria.")>>)

DocxComms(m) ==
    <<Entry("h", "6. Stakeholders & Communications")>>
    \o (IF m.comms # <<>>
        THEN DocxTable(<<"Stakeholder/Group", "Information Needs", "Channel",
                         "Frequency", "Owner">>,
                       [i \in 1..Len(m.comms) |->
                          [k \in 1..5 |-> Get(m.comms[i], CommsColumns[k], "")]])
        ELSE <<Entry("p",
                 "Define stakeholders, information needs, channel, frequency, and owner.")>>)

DocxSuccess(m) ==
    <<Entry("h", "7. Success Measures")>>
    \o (IF m.success_measures # <<>>
        THEN BulletList(m.success_measures)
        ELSE <<Entry("p", "Define measurable KPIs and acceptance criteria.")>>)

\* plan_docx raises KeyError: the risk DataFrame lacks the Probability or the
\* Impact column (df["Probability"], df["Impact"]) or the Risk column
\* (r["Risk"]); every other field is read with .get and a default.
plan_docx_raises(m) ==
    /\ m.risks # <<>>
    /\ \E k \in 1..3 :
          \A i \in 1..Len(m.risks) : RiskColumns[k] \notin DOMAIN m.risks[i]

plan_docx(m, order) ==
    DocxHeader(m) \o DocxObjectives(m) \o DocxScope(m) \o DocxGovernance(m)
    \o DocxRisks(m, order) \o DocxMilestones(m) \o DocxComms(m) \o DocxSuccess(m)

\* ------------------------------------------------- arguments that are drawn

Labels == {"Low", "Medium", "High", "", "low", "Critical"}

Outcomes ==
    { <<>>,
      <<" ">>,
      <<"\t", " ", "\n">>,
      <<"g", "o">>,
      <<" ", "g", "o", "\n">>,
      <<"a", " ", "b", " ">> }

MethodologyArgs == {"Agile", "Waterfall", "Hybrid", "agile"}

IndustryArgs == {INDUSTRIES[i] : i \in 1..Len(INDUSTRIES)} \cup {"Common", "Retail"}

DriverVocabulary ==
    { <<"R", "i", "s", "k">>,
      <<"B", "U", "D", "G", "E", "T">>,
      <<"s", "p", "e", "e", "d">>,
      <<"Q", "u", "a", "l", "i", "t", "y">>,
      <<"r", "i", "s", "k", " ", "r", "i", "s", "k">>,
      <<"r", "i">>,
      <<"s", "k">>,
      <<"I", "n", "n", "o", "v", "a", "t", "i", "o", "n">>,
      <<"r", "e", "d", "u", "c", "e", " ", "r", "i", "s", "k", " ",
        "a", "n", "d", " ", "c", "o", "s", "t">>,
      <<"T", "i", "m", "e", " ", "q", "u", "a", "l", "i", "t", "y", " ",
        "c", "o", "m", "p", "l", "i", "a", "n", "c", "e">> }

\* Every list of at most n elements of S.
SeqsUpTo(S, n) == UNION {[1..k -> S] : k \in 0..n}

DriverLists == SeqsUpTo(DriverVocabulary, MaxDrivers)

DEFAULT_GOV_ROLES ==
    << ("Role" :> "Executive Sponsor" @@ "Name" :> "" @@ "Decision Rights" :>
          "Approves scope, budget, major changes; resolves escalations"),
       ("Role" :> "Steering Committee" @@ "Name" :> "" @@ "Decision Rights" :>
          "Endorses direction; risk review; executive alignment"),
       ("Role" :> "Program/Project Director" @@ "Name" :> "" @@ "Decision Rights" :>
          "Governance orchestration; priorities; risk acceptance (within thresholds)"),
       ("Role" :> "Project Manager" @@ "Name" :> "" @@ "Decision Rights" :>
          "Day-to-day delivery decisions; schedule & risk mgmt; reporting"),
       ("Role" :> "Product Owner / Business Lead" @@ "Name" :> "" @@ "Decision Rights" :>
          "Backlog priorities; business acceptance"),
       ("Role" :> "Technical Lead / Architect" @@ "Name" :> "" @@ "Decision Rights" :>
          "Solution design; technical standards"),
       ("Role" :> "Business Analyst" @@ "Name" :> "" @@ "Decision Rights" :>
          "Requirements approach; traceability"),
       ("Role" :> "QA / Test Lead" @@ "Name" :> "" @@ "Decision Rights" :>
          "Test strategy; quality gates"),
       ("Role" :> "Change & Comms Lead" @@ "Name" :> "" @@ "Decision Rights" :>
          "Change impacts; training & comms plan") >>

\* The model the review tab builds from a session with no input at all.
BlankModel ==
    [ outcome |-> <<>>,
      methodology |-> "Hybrid",
      industry |-> "Information Technology / Software",
      risk_appetite |-> "Medium",
      drivers |-> <<>>,
      objectives |-> <<>>,
      scope_summary |-> <<>>,
      governance_roles |-> <<>>,
      gov_cadence |-> "",
      gov_escalation |-> "",
      include_raci |-> FALSE,
      raci_rows |-> <<>>,
      risks |-> <<>>,
      milestones |-> <<>>,
      comms |-> <<>>,
      success_measures |-> <<>> ]

\* Probability and Impact labels of the risk rows that are drawn; their
\* scores are 6, 2 and (unrecognized label) 6.
LabelPairs == { <<"High", "Medium">>, <<"Low", "Medium">>, <<"Critical", "High">> }

RiskNames == <<"Risk one", "Risk two", "Risk three", "Risk four", "Risk five">>

\* The risk record the risk editor keeps: all five fields.
RiskRecord(name, pair) ==
    [Risk |-> name, Probability |-> pair[1], Impact |-> pair[2],
     Mitigation |-> "Mitigate", Owner |-> "PM"]

\* Risk lists of at most MaxRisks records, the i-th named RiskNames[i], and
\* one list whose record lacks the Mitigation and Owner fields.
RiskLists ==
    { [i \in 1..Len(pairs) |-> RiskRecord(RiskNames[i], pairs[i])] :
        pairs \in SeqsUpTo(LabelPairs, MaxRisks) }
    \cup { <<[Risk |-> "Risk one", Probability |-> "High", Impact |-> "Low"]>> }

RaciRowLists ==
    { <<>>,
      <<[Item |-> "Design", R |-> "Architect", A |-> "Sponsor", C |-> "Analyst",
         I |-> "SteerCo"]>>,
      <<[Item |-> "Build", R |-> "Architect", A |-> "Sponsor", C |-> "Analyst"]>> }

MilestoneLists ==
    { <<>>,
      <<("Milestone" :> "Go-live" @@ "Date" :> "2026-01-31"
         @@ "Acceptance Criteria" :> "UAT signed off")>> }

CommsLists ==
    { <<>>,
      <<("Stakeholder" :> "Steering Committee" @@ "Information Needs" :> "Status"
         @@ "Channel" :> "Meeting" @@ "Frequency" :> "Monthly" @@ "Owner" :> "PM")>> }

ItemLists == { <<>>, <<Lit("Reduce call volume by 30%"), Lit("Launch in 6 months")>> }

\* Outcome and scope summary: empty, whitespace only, text.
TextFields ==
    { <<<<>>, <<>>>>,
      <<<<" ">>, <<" ", "\n">>>>,
      <<<<"g", "o">>, <<" ", "i", "n", " ">>>> }

\* A model with the given section fields.
PlanModel(t, o, k, g, ir, rr, r, ms, c) ==
    [BlankModel EXCEPT
       !.outcome = t[1],
       !.scope_summary = t[2],
       !.gov_cadence = IF g = <<>> THEN "" ELSE "SteerCo monthly",
       !.gov_escalation = IF g = <<>> THEN "" ELSE "PM to Sponsor",
       !.objectives = o,
       !.success_measures = k,
       !.governance_roles = g,
       !.include_raci = ir,
       !.raci_rows = rr,
       !.risks = r,
       !.milestones = ms,
       !.comms = c]

\* The models that are drawn: every combination of the section fields with a
\* risk list of at most one record, and every risk list with the other
\* sections all empty or all filled.
RenderModels ==
    { PlanModel(t, o, k, g, ir, rr, r, ms, c) :
        t \in TextFields, o \in ItemLists, k \in ItemLists,
        g \in {<<>>, DEFAULT_GOV_ROLES}, ir \in BOOLEAN, rr \in RaciRowLists,
        r \in {x \in RiskLists : Len(x) <= 1},
        ms \in MilestoneLists, c \in CommsLists }
    \cup
    { PlanModel(<<<<>>, <<>>>>, <<>>, <<>>, <<>>, ir, <<>>, r, <<>>, <<>>) :
        ir \in BOOLEAN, r \in RiskLists }
    \cup
    { PlanModel(<<<<"g", "o">>, <<" ", "i", "n", " ">>>>, o, o, DEFAULT_GOV_ROLES, ir,
                rr, r, ms, c) :
        o \in ItemLists \ {<<>>}, ir \in BOOLEAN, rr \in RaciRowLists \ {<<>>},
        r \in RiskLists, ms \in MilestoneLists \ {<<>>}, c \in CommsLists \ {<<>>} }

\* ------------------------------------------------------------ function calls

\* No browser session: the functions are called directly.
NoSession ==
    /\ session = <<>>
    /\ pc = "none"
    /\ reached = "none"
    /\ event = [widget |-> "none", arg |-> "", runs |-> 0]
    /\ custom = <<>>

InitFunctions ==
    /\ NoSession
    /\ fn \in {"score", "suggest_objectives", "suggest_risks"}
    /\ label \in (IF fn = "score" THEN Labels ELSE {"Medium"})
    /\ outcome \in (IF fn = "suggest_objectives" THEN Outcomes ELSE {<<>>})
    /\ drivers \in (IF fn = "suggest_objectives" THEN DriverLists ELSE {<<>>})
    /\ methodology \in (IF fn = "score" THEN {"Hybrid"} ELSE MethodologyArgs)
    /\ industry \in (IF fn = "suggest_risks" THEN IndustryArgs ELSE {"Other"})
    /\ returned = {}
    /\ pScore = 0
    /\ iScore = 0
    /\ objOut = <<>>
    /\ riskOut = <<>>
    /\ model = BlankModel
    /\ argsort = <<>>
    /\ md = <<>>
    /\ docx = <<>>
    /\ raised = {}

Call_p_label_to_score ==
    /\ fn = "score"
    /\ "p_label_to_score" \notin returned
    /\ pScore' = p_label_to_score(label)
    /\ returned' = returned \cup {"p_label_to_score"}
    /\ UNCHANGED <<callVars, sessionVars, renderVars, raised, iScore, objOut, riskOut>>

Call_i_label_to_score ==
    /\ fn = "score"
    /\ "i_label_to_score" \notin returned
    /\ iScore' = i_label_to_score(label)
    /\ returned' = returned \cup {"i_label_to_score"}
    /\ UNCHANGED <<callVars, sessionVars, renderVars, raised, pScore, objOut, riskOut>>

Call_suggest_objectives ==
    /\ fn = "suggest_objectives"
    /\ "suggest_objectives" \notin returned
    /\ objOut' = suggest_objectives(outcome, methodology, drivers)
    /\ returned' = returned \cup {"suggest_objectives"}
    /\ UNCHANGED <<callVars, sessionVars, renderVars, raised, pScore, iScore, riskOut>>

Call_suggest_risks ==
    /\ fn = "suggest_risks"
    /\ "suggest_risks" \notin returned
    /\ riskOut' = suggest_risks(industry, methodology)
    /\ returned' = returned \cup {"suggest_risks"}
    /\ UNCHANGED <<callVars, sessionVars, renderVars, raised, pScore, iScore, objOut>>

NextFunctions ==
    \/ Call_p_label_to_score
    \/ Call_i_label_to_score
    \/ Call_suggest_objectives
    \/ Call_suggest_risks

SpecFunctions == InitFunctions /\ [][NextFunctions]_vars

\* ----------------------------------------------------------- renderer calls

InitRender ==
    /\ NoSession
    /\ fn = "render"
    /\ model \in RenderModels
    /\ argsort \in sort_values(model.risks)
    /\ label = "Medium"
    /\ outcome = model.outcome
    /\ methodology = model.methodology
    /\ industry = model.industry
    /\ drivers = model.drivers
    /\ returned = {}
    /\ raised = {}
    /\ pScore = 0
    /\ iScore = 0
    /\ objOut = <<>>
    /\ riskOut = <<>>
    /\ md = <<>>
    /\ docx = <<>>

\* The model after plan_markdown: pd.DataFrame(model["risks"]) copies the
\* records, and assign / sort_values return new frames, so the model's risk
\* list keeps its order and its records keep their fields.
ModelAfterMarkdown(m, order) == m

\* Mutant: the score columns are written to the model's records and the
\* model's list is sorted in place.
ModelAfterDocxInPlace(m, order) ==
    [m EXCEPT !.risks =
        [i \in 1..Len(m.risks) |->
            m.risks[order[i]] @@ ("RiskScore" :> RiskScore(m.risks)[order[i]])]]

\* The model after plan_docx: the three score columns are assigned to the
\* DataFrame df built from the records, not to the records.
ModelAfterDocx(m, order) == m

Call_plan_markdown ==
    /\ fn = "render"
    /\ "plan_markdown" \notin returned \cup raised
    /\ IF plan_markdown_raises(model)
       THEN /\ raised' = raised \cup {"plan_markdown"}
            /\ UNCHANGED <<returned, md>>
       ELSE /\ md' = plan_markdown(model, argsort)
            /\ returned' = returned \cup {"plan_markdown"}
            /\ UNCHANGED raised
    /\ model' = ModelAfterMarkdown(model, argsort)
    /\ UNCHANGED <<callVars, sessionVars, argsort, docx, pScore, iScore, objOut, riskOut>>

Call_plan_docx ==
    /\ fn = "render"
    /\ "plan_docx" \notin returned \cup raised
    /\ IF plan_docx_raises(model)
       THEN /\ raised' = raised \cup {"plan_docx"}
            /\ UNCHANGED <<returned, docx>>
       ELSE /\ docx' = plan_docx(model, argsort)
            /\ returned' = returned \cup {"plan_docx"}
            /\ UNCHANGED raised
    /\ model' = ModelAfterDocx(model, argsort)
    /\ UNCHANGED <<callVars, sessionVars, argsort, md, pScore, iScore, objOut, riskOut>>

NextRender ==
    \/ Call_plan_markdown
    \/ Call_plan_docx

SpecRender == InitRender /\ [][NextRender]_vars


\* ============================================================ the session

\* The defaults of init_state().
defaults ==
    [ outcome |-> <<>>,
      methodology |-> "Hybrid",
      industry |-> "Information Technology / Software",
      risk_appetite |-> "Medium",
      drivers |-> <<>>,
      objectives |-> <<>>,
      scope_summary |-> <<>>,
      governance_roles |-> DEFAULT_GOV_ROLES,
      gov_cadence |-> "SteerCo monthly; Delivery weekly; Risk review fortnightly",
      gov_escalation |-> "PM → Program Director → Sponsor/SteerCo",
      include_raci |-> FALSE,
      raci_rows |-> <<>>,
      risks |-> <<>>,
      milestones |-> <<>>,
      comms |-> <<>>,
      success_measures |-> <<>> ]

\* Mutant: every default is assigned, whether the key is present or not.
init_state_overwrite(ss) ==
    [k \in DOMAIN ss \cup DOMAIN defaults |->
        IF k \in DOMAIN defaults THEN defaults[k] ELSE ss[k]]

\* init_state(): a default is assigned only to a key the session lacks.
init_state(ss) ==
    [k \in DOMAIN ss \cup DOMAIN defaults |->
        IF k \notin DOMAIN ss THEN defaults[k] ELSE ss[k]]

RISK_APPETITES == <<"Low", "Medium", "High">>

\* The options of the drivers multiselect.
DriverOptions ==
    << <<"S", "p", "e", "e", "d", "/", "T", "i", "m", "e", "-", "t", "o", "-", "V", "a", "l", "u", "e">>,
       <<"C", "o", "s", "t", "/", "B", "u", "d", "g", "e", "t", " ", "C", "o", "n", "t", "r", "o", "l">>,
       <<"Q", "u", "a", "l", "i", "t", "y", "/", "R", "e", "l", "i", "a", "b", "i", "l", "i", "t", "y">>,
       <<"R", "i", "s", "k", " ", "R", "e", "d", "u", "c", "t", "i", "o", "n">>,
       <<"R", "e", "g", "u", "l", "a", "t", "o", "r", "y", "/", "C", "o", "m", "p", "l", "i", "a", "n", "c", "e">>,
       <<"C", "u", "s", "t", "o", "m", "e", "r", " ", "E", "x", "p", "e", "r", "i", "e", "n", "c", "e">>,
       <<"I", "n", "n", "o", "v", "a", "t", "i", "o", "n">> >>

ToSet(seq) == {seq[i] : i \in 1..Len(seq)}

\* s.split(sep): the pieces of s between the occurrences of the character sep.
RECURSIVE Split(_, _)
Split(s, sep) ==
    IF \A i \in 1..Len(s) : s[i] # sep
    THEN <<s>>
    ELSE LET i == CHOOSE j \in 1..Len(s) :
                     s[j] = sep /\ \A k \in 1..(j - 1) : s[k] # sep
         IN <<SubSeq(s, 1, i - 1)>> \o Split(SubSeq(s, i + 1, Len(s)), sep)

\* [d.strip() for d in pieces if d.strip()]
RECURSIVE StripNonBlank(_)
StripNonBlank(pieces) ==
    IF pieces = <<>> THEN <<>>
    ELSE (IF Strip(Head(pieces)) # <<>> THEN <<Strip(Head(pieces))>> ELSE <<>>)
         \o StripNonBlank(Tail(pieces))

\* [d.strip() for d in custom_drivers.split(",") if d.strip()]
CustomDriverList(text) == StripNonBlank(Split(text, ","))

\* Text typed into an objective input: a string without a literal part.
Typed(text) == Fmt("", text)

\* o.strip() of an objective: a suggested objective starts with a letter of
\* its literal and ends with its literal or its stripped, non-empty argument.
StripObjective(o) == IF o.lit = "" THEN Typed(Strip(o.arg)) ELSE o

\* [o.strip() for o in edited if o.strip()]
RECURSIVE StripObjectives(_)
StripObjectives(edited) ==
    IF edited = <<>> THEN <<>>
    ELSE (IF StripObjective(Head(edited)) # Typed(<<>>)
          THEN <<StripObjective(Head(edited))>> ELSE <<>>)
         \o StripObjectives(Tail(edited))

Max(a, b) == IF a >= b THEN a ELSE b

\* The values of the objective inputs "obj_0" ..: the objectives, padded with
\* empty strings to at least four rows, with the row the user edited.
ObjectiveInputs(objs, w, v) ==
    [i \in 1..Max(4, Len(objs)) |->
        IF w = "objective" /\ v.row = i THEN Typed(v.text)
        ELSE IF i <= Len(objs) THEN objs[i] ELSE Typed(<<>>)]

\* The rows an editor starts from: the stored rows, or one blank row.
OrBlankRow(rows, blank) == IF rows # <<>> THEN rows ELSE <<blank>>

\* st.data_editor(...).to_dict(orient="records"): the rows given, with the
\* cell the user edited in this run.
data_editor(rows, edited, v) ==
    IF edited /\ v.row \in 1..Len(rows)
    THEN [rows EXCEPT ![v.row] = [@ EXCEPT ![v.column] = v.text]]
    ELSE rows

BlankRaciRow == [Item |-> "", R |-> "", A |-> "", C |-> "", I |-> ""]

\* date.today() of the run
Today == "today"

BlankRiskRow ==
    [Risk |-> "", Probability |-> "Medium", Impact |-> "Medium", Mitigation |-> "", Owner |-> ""]

BlankMilestoneRow ==
    "Milestone" :> "" @@ "Date" :> Today @@ "Acceptance Criteria" :> ""

BlankCommsRow ==
    "Stakeholder" :> "" @@ "Information Needs" :> "" @@ "Channel" :> ""
    @@ "Frequency" :> "" @@ "Owner" :> ""

\* The record an "add" button appends for the suggested risk r.
AddedRisk(r) ==
    [Risk |-> r, Probability |-> "Medium", Impact |-> "Medium", Mitigation |-> "", Owner |-> ""]

\* ---- the script body (one run, triggered by the interaction with widget w,
\* ---- which now holds the value v)

\* Sidebar: each selectbox shows the stored value unless the user picked one.
Sidebar(ss, w, v) ==
    [ss EXCEPT !.methodology = IF w = "methodology" THEN v ELSE @,
               !.industry = IF w = "industry" THEN v ELSE @,
               !.risk_appetite = IF w = "risk_appetite" THEN v ELSE @]

\* Tab 1, the outcome text area.
Tab1Outcome(ss, w, v) == [ss EXCEPT !.outcome = IF w = "outcome" THEN v ELSE @]

\* st.multiselect raises when a default value is not one of its options; the
\* stored drivers are its default.
MultiselectRaises(ss) ==
    \E i \in 1..Len(ss.drivers) : ss.drivers[i] \notin ToSet(DriverOptions)

\* Tab 1 from the multiselect on: drivers, scope summary, Generate button.
Tab1Drivers(ss, text, w, v) ==
    LET picked == IF w = "drivers" THEN v ELSE ss.drivers
        s1 == [ss EXCEPT !.drivers = picked \o CustomDriverList(text),
                         !.scope_summary = IF w = "scope_summary" THEN v ELSE @]
    IN  IF w = "generate"
        THEN [s1 EXCEPT !.objectives =
                  suggest_objectives(s1.outcome, s1.methodology, s1.drivers)]
        ELSE s1

\* Tab 2, the objective inputs.
Tab2Objectives(ss, w, v) ==
    [ss EXCEPT !.objectives = StripObjectives(ObjectiveInputs(@, w, v))]

\* The text of the "kpi_new" input: what the user typed now, else what the
\* widget held before.
KpiInput(ss, w, v) ==
    IF w = "kpi_new" THEN v
    ELSE IF "kpi_new" \in DOMAIN ss THEN ss.kpi_new ELSE <<>>

\* Tab 2, the KPI input: the widget's text is the session's "kpi_new"; a
\* non-blank text is appended to the success measures.
Tab2Kpi(ss, w, v) ==
    LET text == KpiInput(ss, w, v)
        s1 == [k \in DOMAIN ss \cup {"kpi_new"} |-> IF k = "kpi_new" THEN text ELSE ss[k]]
    IN  IF Strip(text) # <<>>
        THEN [s1 EXCEPT !.success_measures = Append(@, Strip(text))]
        ELSE s1

\* Assigning st.session_state["kpi_new"] after the widget with that key was
\* created raises; the assignment follows every append.
KpiRaises(ss) == Strip(ss.kpi_new) # <<>>

\* Tab 3: governance cadence, escalation, roles, RACI.
Tab3(ss, w, v) ==
    [ss EXCEPT !.gov_cadence = IF w = "gov_cadence" THEN v ELSE @,
               !.gov_escalation = IF w = "gov_escalation" THEN v ELSE @,
               !.governance_roles = data_editor(@, w = "gov_editor", v),
               !.include_raci = IF w = "include_raci" THEN v ELSE @,
               !.raci_rows = data_editor(OrBlankRow(@, BlankRaciRow), w = "raci_editor", v)]

\* Mutant: every suggested risk is appended in every run.
Tab4AppendsSuggestions(ss, w, v) ==
    LET suggested == suggest_risks(ss.industry, ss.methodology)
    IN  [ss EXCEPT !.risks =
            @ \o [i \in 1..Len(suggested) |-> AddedRisk(suggested[i])]]

\* Tab 4: the add buttons of the suggested risks, Clear, the risk editor.
Tab4(ss, w, v) ==
    LET suggested == suggest_risks(ss.industry, ss.methodology)
        added == IF w = "addrisk" /\ v \in ToSet(suggested)
                 THEN Append(ss.risks, AddedRisk(v))
                 ELSE ss.risks
        cleared == IF w = "clear_risks" THEN <<>> ELSE added
    IN  [ss EXCEPT !.risks =
            data_editor(OrBlankRow(cleared, BlankRiskRow), w = "risk_editor", v)]

\* Tab 5: milestones and communications editors.
Tab5(ss, w, v) ==
    [ss EXCEPT !.milestones =
                   data_editor(OrBlankRow(@, BlankMilestoneRow), w = "m_editor", v),
               !.comms = data_editor(OrBlankRow(@, BlankCommsRow), w = "c_editor", v)]

\* One run of the script after init_state(): the session it leaves and the
\* place it got to (an exception ends the run where it is raised).  Tab 6
\* builds the plan model from the session and renders it; it stores nothing.
Script(ss, text, w, v) ==
    LET a == Tab1Outcome(Sidebar(ss, w, v), w, v)
    IN  IF MultiselectRaises(a)
        THEN [session |-> a, reached |-> "multiselect"]
        ELSE LET b == Tab2Kpi(Tab2Objectives(Tab1Drivers(a, text, w, v), w, v), w, v)
             IN  IF KpiRaises(b)
                 THEN [session |-> b, reached |-> "kpi_new"]
                 ELSE [session |-> Tab5(Tab4(Tab3(b, w, v), w, v), w, v),
                       reached |-> "end"]

\* ---- what the user enters

SessionIndustries ==
    {"Information Technology / Software", "Healthcare", "Other"}

SessionOutcomes == { <<>>, <<"g", "o">>, <<" ", "g", "o", "\n">> }

DriverPicks ==
    { <<>>, <<DriverOptions[4]>>, <<DriverOptions[2], DriverOptions[3]>> }

CustomTexts == { <<" ", ",">>, <<"s", "p", "e", "e", "d", ",", " ", ",", "x">> }

ScopeTexts == { <<"a", "l", "l">> }

ObjectiveEdits ==
    [row : {1, 2}, text : { <<>>, <<" ", "o", "k", " ">> }]

KpiTexts == { <<>>, <<" ">>, <<"n", "p", "s", " ">> }

CellEdits(column, texts) == [row : {1}, column : {column}, text : texts]

\* ---- the session as a state machine

nonSessionVars ==
    <<fn, label, outcome, methodology, industry, drivers, returned, pScore,
      iScore, objOut, riskOut, model, argsort, md, docx, raised>>

\* A browser session opens: st.session_state is empty and the first run of
\* the script is about to start.
InitSession ==
    /\ fn = "session"
    /\ label = "Medium"
    /\ outcome = <<>>
    /\ methodology = "Hybrid"
    /\ industry = "Other"
    /\ drivers = <<>>
    /\ returned = {}
    /\ raised = {}
    /\ pScore = 0
    /\ iScore = 0
    /\ objOut = <<>>
    /\ riskOut = <<>>
    /\ model = BlankModel
    /\ argsort = <<>>
    /\ md = <<>>
    /\ docx = <<>>
    /\ session = <<>>
    /\ pc = "init_state"
    /\ reached = "start"
    /\ event = [widget |-> "load", arg |-> "", runs |-> 0]
    /\ custom = <<>>

\* Every run of the script starts with init_state().
InitState ==
    /\ fn = "session"
    /\ pc = "init_state"
    /\ reached = "start" \/ event.runs < MaxReruns
    /\ session' = init_state(session)
    /\ pc' = "script"
    /\ UNCHANGED <<nonSessionVars, reached, event, custom>>

\* The rest of the run.  The inputs keep their text between runs, except that
\* an input the run did not get to loses it.
Run(w, arg, v, runs) ==
    /\ fn = "session"
    /\ pc = "script"
    /\ LET text == IF w = "custom_drivers" THEN v ELSE custom
           r == Script(session, text, w, v)
       IN  /\ session' = r.session
           /\ reached' = r.reached
           /\ custom' = IF r.reached = "multiselect" THEN <<>> ELSE text
    /\ pc' = "init_state"
    /\ event' = [widget |-> w, arg |-> arg, runs |-> runs]
    /\ UNCHANGED nonSessionVars

\* The first run: the page is loaded, no widget has been touched.
Load ==
    /\ reached = "start"
    /\ Run("load", "", <<>>, 0)

\* A run triggered by the user's interaction with one widget that the
\* previous run displayed.
Rerun(w, arg, v) == Run(w, arg, v, event.runs + 1)

\* The previous run displayed the widget: it got as far as one of the places.
Shown(places) ==
    /\ fn = "session"
    /\ pc = "script"
    /\ reached \in places
    /\ event.runs < MaxReruns

Always == {"multiselect", "kpi_new", "end"}

Tabs12 == {"kpi_new", "end"}

AllTabs == {"end"}

SelectMethodology ==
    /\ Shown(Always)
    /\ \E v \in ToSet(METHODOLOGIES) \ {session.methodology} :
           Rerun("methodology", "", v)

SelectIndustry ==
    /\ Shown(Always)
    /\ \E v \in SessionIndustries \ {session.industry} : Rerun("industry", "", v)

SelectRiskAppetite ==
    /\ Shown(Always)
    /\ \E v \in ToSet(RISK_APPETITES) \ {session.risk_appetite} :
           Rerun("risk_appetite", "", v)

EditOutcome ==
    /\ Shown(Always)
    /\ \E v \in SessionOutcomes \ {session.outcome} : Rerun("outcome", "", v)

PickDrivers ==
    /\ Shown(Tabs12)
    /\ \E v \in DriverPicks \ {session.drivers} : Rerun("drivers", "", v)

EditCustomDrivers ==
    /\ Shown(Tabs12)
    /\ \E v \in CustomTexts \ {custom} : Rerun("custom_drivers", "", v)

EditScope ==
    /\ Shown(Tabs12)
    /\ \E v \in ScopeTexts \ {session.scope_summary} : Rerun("scope_summary", "", v)

ClickGenerate ==
    /\ Shown(Tabs12)
    /\ Rerun("generate", "", TRUE)

EditObjective ==
    /\ Shown(Tabs12)
    /\ \E v \in ObjectiveEdits : Rerun("objective", "", v)

EditKpi ==
    /\ Shown(Tabs12)
    /\ \E v \in KpiTexts \ {session.kpi_new} : Rerun("kpi_new", "", v)

EditCadence ==
    /\ Shown(AllTabs)
    /\ \E v \in {"Weekly"} \ {session.gov_cadence} : Rerun("gov_cadence", "", v)

EditEscalation ==
    /\ Shown(AllTabs)
    /\ \E v \in {"PM to Sponsor"} \ {session.gov_escalation} :
           Rerun("gov_escalation", "", v)

EditGovernanceRoles ==
    /\ Shown(AllTabs)
    /\ \E v \in CellEdits("Name", {"Ann"}) : Rerun("gov_editor", "", v)

ToggleRaci ==
    /\ Shown(AllTabs)
    /\ Rerun("include_raci", "", ~session.include_raci)

EditRaci ==
    /\ Shown(AllTabs)
    /\ \E v \in CellEdits("Item", {"Build"}) : Rerun("raci_editor", "", v)

ClickAddRisk ==
    /\ Shown(AllTabs)
    /\ \E r \in ToSet(suggest_risks(session.industry, session.methodology)) :
           Rerun("addrisk", r, r)

ClickClearRisks ==
    /\ Shown(AllTabs)
    /\ Rerun("clear_risks", "", TRUE)

EditRisks ==
    /\ Shown(AllTabs)
    /\ \E v \in CellEdits("Probability", {"High"}) \cup CellEdits("Mitigation", {"Plan B"})
                \cup CellEdits("Risk", {"Own risk"}) :
           Rerun("risk_editor", "", v)

EditMilestones ==
    /\ Shown(AllTabs)
    /\ \E v \in CellEdits("Milestone", {"Go-live"}) : Rerun("m_editor", "", v)

EditComms ==
    /\ Shown(AllTabs)
    /\ \E v \in CellEdits("Stakeholder", {"Board"}) : Rerun("c_editor", "", v)

ClickDownload ==
    /\ Shown(AllTabs)
    /\ Rerun("download", "", TRUE)

NextSession ==
    \/ InitState
    \/ Load
    \/ SelectMethodology
    \/ SelectIndustry
    \/ SelectRiskAppetite
    \/ EditOutcome
    \/ PickDrivers
    \/ EditCustomDrivers
    \/ EditScope
    \/ ClickGenerate
    \/ EditObjective
    \/ EditKpi
    \/ EditCadence
    \/ EditEscalation
    \/ EditGovernanceRoles
    \/ ToggleRaci
    \/ EditRaci
    \/ ClickAddRisk
    \/ ClickClearRisks
    \/ EditRisks
    \/ EditMilestones
    \/ EditComms
    \/ ClickDownload

SpecSession == InitSession /\ [][NextSession]_vars

\* ===================================================== claims C1 .. C6

\* The string is empty or consists of whitespace only.
AllWhitespace(s) == \A i \in 1..Len(s) : s[i] \in Whitespace

\* t is s without its leading and trailing whitespace.
IsTrimOf(t, s) ==
    \E i \in 1..(Len(s) + 1), j \in 0..Len(s) :
        /\ t = SubSeq(s, i, j)
        /\ \A k \in 1..(i - 1) : s[k] \in Whitespace
        /\ \A k \in (j + 1)..Len(s) : s[k] \in Whitespace
        /\ t # <<>> => (t[1] \notin Whitespace /\ t[Len(t)] \notin Whitespace)

\* kw occurs in the single driver string d, ignoring case.
OccursIgnoringCase(kw, d) ==
    \E i \in 0..Len(d) :
        /\ i + Len(kw) <= Len(d)
        /\ \A j \in 1..Len(kw) : LowerChar(d[i + j]) = kw[j]

\* The five trigger rules in their fixed order.
TriggerRules ==
    << [kws |-> {KwRisk}, line |-> ObjRisk],
       [kws |-> {KwCost, KwBudget}, line |-> ObjCost],
       [kws |-> {KwSpeed, KwTime}, line |-> ObjTime],
       [kws |-> {KwQuality}, line |-> ObjQuality],
       [kws |-> {KwCompliance}, line |-> ObjCompliance] >>

RuleFires(rule) ==
    \E i \in 1..Len(drivers) : \E kw \in rule.kws : OccursIgnoringCase(kw, drivers[i])

FiredRules == SelectSeq(TriggerRules, RuleFires)

\* Every reordering of the sequence s.
Reorderings(s) ==
    { [i \in 1..Len(s) |-> s[f[i]]] :
        f \in {g \in [1..Len(s) -> 1..Len(s)] :
                 \A a, b \in 1..Len(s) : g[a] = g[b] => a = b} }

NoDuplicates(s) == \A a, b \in 1..Len(s) : s[a] = s[b] => a = b

\* The industries that have a catalog of their own.
DedicatedIndustries ==
    { "Information Technology / Software", "Infrastructure / Construction",
      "Healthcare", "Financial Services", "Government / Public Sector",
      "Education" }

DedicatedCatalog(ind) == IF ind \in DedicatedIndustries THEN BASE_RISKS[ind] ELSE <<>>

\* C1: p_label_to_score and i_label_to_score return a value for every label,
\* always one of 1, 2, 3: Low -> 1, Medium -> 2, High -> 3, and exactly 2 for
\* every label that is none of Low, Medium, High (the empty string included).
C1_ScoreTotal ==
    LET expected == IF label = "Low" THEN 1
                    ELSE IF label = "High" THEN 3
                    ELSE 2
    IN /\ "p_label_to_score" \in returned =>
            (pScore \in {1, 2, 3} /\ pScore = expected)
       /\ "i_label_to_score" \in returned =>
            (iScore \in {1, 2, 3} /\ iScore = expected)

C1_Witness ==
    /\ returned = {"p_label_to_score", "i_label_to_score"}
    /\ label = ""
    /\ pScore = 2
    /\ iScore = 2

\* C2: with an empty or whitespace-only outcome suggest_objectives returns the
\* empty sequence, whatever the methodology and the drivers.
C2_BlankOutcomeEmpty ==
    ("suggest_objectives" \in returned /\ AllWhitespace(outcome)) => objOut = <<>>

C2_Witness ==
    /\ "suggest_objectives" \in returned
    /\ outcome = <<"\t", " ", "\n">>
    /\ Len(drivers) = 2
    /\ drivers[1] = <<"R", "i", "s", "k">>
    /\ methodology = "Agile"
    /\ objOut = <<>>

\* C3: for a non-blank outcome the first three entries are the restatement of
\* the trimmed outcome, the KPI prompt and the delivery statement, which is the
\* Agile wording exactly when methodology = "Agile" and one other wording for
\* every other methodology value.
C3_FirstThree ==
    ("suggest_objectives" \in returned /\ ~AllWhitespace(outcome)) =>
        /\ Len(objOut) >= 3
        /\ objOut[1].lit = "Deliver the defined outcome: "
        /\ IsTrimOf(objOut[1].arg, outcome)
        /\ objOut[2] = Lit(ObjKpi)
        /\ objOut[3] = Lit(IF methodology = "Agile" THEN ObjAgile ELSE ObjPhase)
        /\ ObjAgile # ObjPhase

C3_Witness ==
    /\ "suggest_objectives" \in returned
    /\ outcome = <<" ", "g", "o", "\n">>
    /\ methodology = "agile"
    /\ Len(objOut) >= 3
    /\ objOut[1] = Fmt("Deliver the defined outcome: ", <<"g", "o">>)
    /\ objOut[3] = Lit(ObjPhase)

\* C4: for a non-blank outcome the entries after the first three are exactly
\* the trigger objectives, in the fixed rule order, whose keyword occurs
\* (ignoring case) in some driver string: one line per fired trigger, triggers
\* independent, the same output for every reordering of the drivers, and a
\* total length of 3 plus the number of fired triggers, at most 8.
C4_TriggersInRuleOrder ==
    ("suggest_objectives" \in returned /\ ~AllWhitespace(outcome)) =>
        /\ Len(objOut) = 3 + Len(FiredRules)
        /\ Len(objOut) <= 8
        /\ \A k \in 1..Len(FiredRules) : objOut[3 + k] = Lit(FiredRules[k].line)
        /\ \A d \in Reorderings(drivers) :
              suggest_objectives(outcome, methodology, d) = objOut

C4_Witness ==
    /\ "suggest_objectives" \in returned
    /\ ~AllWhitespace(outcome)
    /\ Len(drivers) = 2
    /\ drivers[1] = <<"T", "i", "m", "e", " ", "q", "u", "a", "l", "i", "t", "y", " ",
                      "c", "o", "m", "p", "l", "i", "a", "n", "c", "e">>
    /\ drivers[2] = <<"r", "e", "d", "u", "c", "e", " ", "r", "i", "s", "k", " ",
                      "a", "n", "d", " ", "c", "o", "s", "t">>
    /\ Len(objOut) = 8
    /\ objOut[4] = Lit(ObjRisk)
    /\ objOut[8] = Lit(ObjCompliance)

\* C5: for every industry value (the catalog key "Common" included) and every
\* methodology value suggest_risks returns no duplicate strings, its first 10
\* entries are the Common statements in catalog order and its last 2 entries
\* are the methodology pair: Agile's for Agile, Waterfall's for Waterfall, the
\* Hybrid pair for anything else.
C5_CommonFirstPairLast ==
    "suggest_risks" \in returned =>
        LET n == Len(riskOut)
            pair == IF methodology = "Agile" THEN AgileRisks
                    ELSE IF methodology = "Waterfall" THEN WaterfallRisks
                    ELSE HybridRisks
        IN /\ NoDuplicates(riskOut)
           /\ Len(BASE_RISKS["Common"]) = 10
           /\ n >= 12
           /\ SubSeq(riskOut, 1, 10) = BASE_RISKS["Common"]
           /\ SubSeq(riskOut, n - 1, n) = pair

C5_Witness ==
    /\ "suggest_risks" \in returned
    /\ industry = "Common"
    /\ methodology = "agile"
    /\ Len(riskOut) = 12
    /\ riskOut[12] = "Phase gates misaligned with agile increments"

\* C6: the length of suggest_risks is 10 + the size of the industry's dedicated
\* catalog + 2: 15 for (Healthcare, Waterfall), 16 for the two industries with
\* 4 statements, 12 for "Other" and for every value without a dedicated list;
\* the industry statements stand between the Common block and the pair.
C6_LengthAndPlacement ==
    "suggest_risks" \in returned =>
        LET n == Len(riskOut)
            own == DedicatedCatalog(industry)
        IN /\ n = 10 + Len(own) + 2
           /\ SubSeq(riskOut, 11, n - 2) = own
           /\ (industry = "Healthcare" /\ methodology = "Waterfall") => n = 15
           /\ industry \in {"Information Technology / Software",
                            "Infrastructure / Construction"} => n = 16
           /\ industry \notin DedicatedIndustries => n = 12

C6_Witness ==
    /\ "suggest_risks" \in returned
    /\ industry = "Healthcare"
    /\ methodology = "Waterfall"
    /\ Len(riskOut) = 15
    /\ riskOut[11] = "Privacy and clinical safety requirements cause rework"
    /\ riskOut[14] = "Late-stage integration exposes significant defects"

\* ===================================================== claims C7 .. C10

\* The number of entries of the document with the given tag.
CountTag(out, tag) == Cardinality({i \in 1..Len(out) : out[i].tag = tag})

\* The position of the k-th entry with the given tag.
TagIndex(out, tag, k) ==
    CHOOSE i \in 1..Len(out) :
        /\ out[i].tag = tag
        /\ Cardinality({j \in 1..(i - 1) : out[j].tag = tag}) = k - 1

\* The literal texts of the section headings, in document order.
SectionHeadings(out, tag) == [k \in 1..CountTag(out, tag) |-> out[TagIndex(out, tag, k)].lit]

\* The entries of section k: after its heading, up to the next section heading.
SectionBody(out, tag, k) ==
    LET first == TagIndex(out, tag, k) + 1
        last == IF k < CountTag(out, tag) THEN TagIndex(out, tag, k + 1) - 1 ELSE Len(out)
    IN SubSeq(out, first, last)

\* A placeholder: a fixed text shown in place of content.
IsPlaceholder(e) == e.tag \in {"em", "text", "p"} /\ e.lit # ""

\* The placeholder texts of section k, markup removed, in document order.
Placeholders(out, tag, k) ==
    LET shown == SelectSeq(SectionBody(out, tag, k), IsPlaceholder)
    IN [i \in 1..Len(shown) |-> shown[i].lit]

\* The Risk cells of the rows of the risk table (section 4), in document order.
RenderedRisks(out, tag) ==
    LET isRow(e) == e.tag = "tr"
        rows == SelectSeq(SectionBody(out, tag, 4), isRow)
    IN [i \in 1..Len(rows) |-> rows[i].cells[1]]

\* The stable descending order of the risks: by score, ties by list position.
StableOrder(risks) ==
    LET score == RiskScore(risks)
    IN CHOOSE f \in IndexPermutations(Len(risks)) :
          \A a, b \in 1..Len(risks) :
             a < b => \/ score[f[a]] > score[f[b]]
                      \/ (score[f[a]] = score[f[b]] /\ f[a] < f[b])

StableRisks(risks) == [i \in 1..Len(risks) |-> risks[StableOrder(risks)[i]].Risk]

\* C7: in both renderers the risk table rows are the input risks in descending
\* order of probability score x impact score, risks of equal score keeping
\* their original relative order (scores [6, 2, 6] render as #1, #3, #2).
C7_StableDescendingRisks ==
    /\ ("plan_markdown" \in returned /\ model.risks # <<>>) =>
          RenderedRisks(md, "h2") = StableRisks(model.risks)
    /\ ("plan_docx" \in returned /\ model.risks # <<>>) =>
          RenderedRisks(docx, "h") = StableRisks(model.risks)

IsRaciHeading(e) == e.tag \in {"h3", "bold"} /\ e.lit = "3.2 RACI (Indicative)"

IsRaciHeader(e) == e.tag = "th" /\ e.cells = <<"Deliverable/Activity", "R", "A", "C", "I">>

IsRaciPlaceholder(e) == e.lit = "Add RACI entries in the app to include them here."

IsRaciRow(e) ==
    /\ e.tag = "tr"
    /\ \E i \in 1..Len(model.raci_rows) : e.cells[1] = model.raci_rows[i].Item

Shows(out, Test(_)) == \E i \in 1..Len(out) : Test(out[i])

\* The heading is followed, within its subsection, by the RACI placeholder.
RaciHeadingWithPlaceholder(out) ==
    \E i, j \in 1..Len(out) :
        /\ i < j
        /\ IsRaciHeading(out[i])
        /\ IsRaciPlaceholder(out[j])
        /\ \A x \in (i + 1)..(j - 1) : out[x].tag \in {"th", "tsep"}

RaciByFlagOnly(out) ==
    /\ model.include_raci <=> Shows(out, IsRaciHeading)
    /\ (model.include_raci /\ model.raci_rows = <<>>) => RaciHeadingWithPlaceholder(out)
    /\ ~model.include_raci =>
          /\ ~Shows(out, IsRaciHeading)
          /\ ~Shows(out, IsRaciHeader)
          /\ ~Shows(out, IsRaciRow)
          /\ ~Shows(out, IsRaciPlaceholder)

\* C8: in both renderers the RACI subsection is present iff include_raci is
\* true, whatever raci_rows holds: flag true with no rows shows the heading
\* with the RACI placeholder; flag false shows no RACI heading, header, row or
\* placeholder.
C8_RaciByFlagOnly ==
    /\ "plan_markdown" \in returned => RaciByFlagOnly(md)
    /\ "plan_docx" \in returned => RaciByFlagOnly(docx)

C8_Witness ==
    /\ returned = {"plan_markdown", "plan_docx"}
    /\ model.include_raci
    /\ model.raci_rows = <<>>
    /\ model.governance_roles # <<>>
    /\ Shows(md, IsRaciPlaceholder)
    /\ Shows(docx, IsRaciPlaceholder)

\* All collections are empty and all text fields are blank.
IsEmptyModel(m) ==
    /\ AllWhitespace(m.outcome)
    /\ AllWhitespace(m.scope_summary)
    /\ m.gov_cadence = ""
    /\ m.gov_escalation = ""
    /\ m.drivers = <<>>
    /\ m.objectives = <<>>
    /\ m.governance_roles = <<>>
    /\ m.raci_rows = <<>>
    /\ m.risks = <<>>
    /\ m.milestones = <<>>
    /\ m.comms = <<>>
    /\ m.success_measures = <<>>

SevenHeadings ==
    << "1. Objectives", "2. Scope Summary", "3. Governance", "4. Risks & Mitigations",
       "5. Milestones & Timeline", "6. Stakeholders & Communications",
       "7. Success Measures" >>

\* C9: plan_markdown on an empty model never fails and emits the seven section
\* headings in the order 1..7, each followed by its own placeholder and by no
\* list item or table row; the seven placeholders are pairwise distinct.
C9_EmptyModelPlaceholders ==
    IsEmptyModel(model) =>
        /\ "plan_markdown" \notin raised
        /\ "plan_markdown" \in returned =>
              /\ SectionHeadings(md, "h2") = SevenHeadings
              /\ \A k \in 1..7 : Len(Placeholders(md, "h2", k)) >= 1
              /\ \A k \in (1..7) \ {3} : IsPlaceholder(SectionBody(md, "h2", k)[1])
              /\ \E i \in 1..(Len(md) - 1) :
                    /\ md[i].lit = "3.1 Roles & Decision Rights"
                    /\ IsPlaceholder(md[i + 1])
                    /\ md[i + 1].lit = Placeholders(md, "h2", 3)[1]
              /\ \A k, l \in 1..7 :
                    Placeholders(md, "h2", k)[1] = Placeholders(md, "h2", l)[1] => k = l
              /\ \A i \in 1..Len(md) : md[i].tag \notin {"ol", "tr"}

C9_Witness ==
    /\ "plan_markdown" \in returned
    /\ IsEmptyModel(model)
    /\ model.scope_summary = <<" ", "\n">>
    /\ ~model.include_raci
    /\ Placeholders(md, "h2", 7) = <<"Define measurable KPIs and acceptance criteria.">>
    /\ Placeholders(md, "h2", 2) =
          <<"Summarize in-scope and out-of-scope items, key deliverables, and assumptions.">>

\* C10: plan_docx mirrors plan_markdown: for every model both renderers emit
\* the same sections in the same order, take the same empty / non-empty branch
\* in each section and show the same placeholder text (markup aside) in each
\* empty branch.
C10_DocxMirrorsMarkdown ==
    returned = {"plan_markdown", "plan_docx"} =>
        /\ SectionHeadings(docx, "h") = SectionHeadings(md, "h2")
        /\ \A k \in 1..CountTag(md, "h2") :
              Len(Placeholders(docx, "h", k)) = Len(Placeholders(md, "h2", k))
        /\ \A k \in 1..CountTag(md, "h2") :
              Placeholders(docx, "h", k) = Placeholders(md, "h2", k)

\* ===================================================== claims C13, C14

\* Every record a renderer reads carries all the fields of its table.
HasAll(rows, columns) ==
    \A i \in 1..Len(rows) : \A k \in 1..Len(columns) : columns[k] \in DOMAIN rows[i]

RecordsWellFormed(m) ==
    /\ HasAll(m.governance_roles, GovColumns)
    /\ m.include_raci => HasAll(m.raci_rows, RaciColumns)
    /\ HasAll(m.risks, RiskColumns)
    /\ HasAll(m.milestones, MilestoneColumns)
    /\ HasAll(m.comms, CommsColumns)

\* C13: the two renderers agree on failure: for every model, also one with a
\* record that lacks an expected field, plan_markdown fails iff plan_docx
\* fails, and a renderer that returns a document has read no record with a
\* missing field (it substitutes no empty value for one).
C13_RenderersAgreeOnFailure ==
    /\ {"plan_markdown", "plan_docx"} \subseteq (returned \cup raised) =>
          ("plan_markdown" \in raised <=> "plan_docx" \in raised)
    /\ "plan_markdown" \in returned => RecordsWellFormed(model)
    /\ "plan_docx" \in returned => RecordsWellFormed(model)

ScoreColumns == {"ProbabilityScore", "ImpactScore", "RiskScore"}

\* The risk table of the document shows the five risk columns and nothing else.
RiskTableShowsFiveColumns(out, tag) ==
    \A i \in 1..Len(SectionBody(out, tag, 4)) :
        LET e == SectionBody(out, tag, 4)[i]
        IN /\ e.tag = "th" => e.cells = RiskColumns
           /\ e.tag = "tr" => Len(e.cells) = 5

SessionKeys ==
    {"outcome", "methodology", "industry", "risk_appetite", "drivers", "objectives",
     "scope_summary", "governance_roles", "gov_cadence", "gov_escalation",
     "include_raci", "raci_rows", "risks", "milestones", "comms", "success_measures"}

\* The session the claim describes for a fresh browser session.
FreshSession(ss) ==
    /\ DOMAIN ss = SessionKeys
    /\ ss.methodology = "Hybrid"
    /\ ss.industry = "Information Technology / Software"
    /\ ss.risk_appetite = "Medium"
    /\ Len(ss.governance_roles) = 9
    /\ ss.governance_roles = DEFAULT_GOV_ROLES
    /\ ss.gov_cadence = "SteerCo monthly; Delivery weekly; Risk review fortnightly"
    /\ ss.gov_escalation = "PM → Program Director → Sponsor/SteerCo"
    /\ ss.include_raci = FALSE
    /\ ss.outcome = <<>>
    /\ ss.scope_summary = <<>>
    /\ \A k \in {"drivers", "objectives", "raci_rows", "risks", "milestones",
                 "comms", "success_measures"} : ss[k] = <<>>

\* C11: init_state on an empty session leaves methodology Hybrid, industry
\* Information Technology / Software, risk appetite Medium, the nine default
\* governance roles, the fixed cadence and escalation texts, include_raci
\* false and every other collection empty; in every later run init_state
\* changes no key that is already present.
C11_InitStateFillsMissingKeysOnly ==
    [][ (pc = "init_state" /\ pc' = "script") =>
            /\ DOMAIN session = {} => FreshSession(session')
            /\ \A k \in DOMAIN session :
                  k \in DOMAIN session' /\ session'[k] = session[k] ]_vars

C11_Witness ==
    /\ pc = "script"
    /\ reached = "end"
    /\ event.widget = "methodology"
    /\ session.methodology = "Agile"
    /\ session.risks = <<BlankRiskRow>>
    /\ session.raci_rows = <<BlankRaciRow>>
    /\ "kpi_new" \in DOMAIN session

\* Every risk name some industry / methodology pair suggests.
SuggestedRiskNames ==
    UNION { ToSet(suggest_risks(ind, meth)) :
                ind \in ToSet(INDUSTRIES), meth \in ToSet(METHODOLOGIES) }

\* How many records of the risk list carry the name r.
CountRisk(risks, r) == Cardinality({i \in 1..Len(risks) : risks[i].Risk = r})

====
